---- MODULE Spec2Model ----
(***************************************************************************)
(* The key-value store of kv_store.c (src/unnamed/part_000), its header    *)
(* kv_store.h (src/unnamed/part_002, lines 290-327) and the threaded       *)
(* harness main.c (src/unnamed/part_001).                                  *)
(*                                                                         *)
(* Memory is modelled explicitly.  A store block (KeyValueStore with its   *)
(* flexible array) lives at an address of `blocks`; a string lives at an   *)
(* address of `strs`.  Addresses are never reused, so a freed block or     *)
(* string stays recognisable.  realloc may fail, grow in place, or move    *)
(* the block and free the old one; malloc may fail.                        *)
(*                                                                         *)
(* The specifications:                                                     *)
(*   Spec      the harness: worker threads call store_add_or_update_item   *)
(*             under main_mutex, main joins them, reads and destroys.      *)
(*   SpecFree  client threads call store_add_or_update_item and            *)
(*             store_get_value, and read add_count, concurrently with no   *)
(*             external lock.                                              *)
(*   SpecSeq   one caller creates a store and makes any sequence of calls, *)
(*             valid or not, then destroys it.                             *)
(*   SpecDistinct  the clients of SpecFree making only upserts, each on    *)
(*             keys of its own.                                            *)
(*   SpecFair, SpecFreeFair  Spec and SpecFree with the scheduler's        *)
(*             fairness: a thread that can run does run, and a thread      *)
(*             waiting for a mutex that is released again and again gets   *)
(*             it.                                                         *)
(***************************************************************************)
EXTENDS Integers, Sequences, FiniteSets, TLC

\* ---------------------------------------------------------------- bounds
\* keys inserted by each worker (ITEMS_PER_THREAD, 100 in the source)
ItemsPerThread == 2
\* the capacity the harness asks store_create for (10 in the source)
HarnessCapacity == 1
\* how many allocations (malloc, realloc, mtx_init, thrd_create) may fail
MaxAllocFailures == 1
\* SpecFree: calls made by each client
MaxCalls == 2
\* SpecFree: the capacity the store was created with
ClientCapacity == 1
\* SpecSeq: calls made by the caller
SeqCalls == 4
\* SpecSeq: the non-zero capacity the caller may ask store_create for
SeqCapacity == 1

\* ------------------------------------------------------------- constants
\* NUM_THREADS.  The harness runs 4 workers; the model runs 2, the fewest
\* that contend for the store (main looks up keys of worker 1).
NumWorkers == 2
NULL == 0
\* &store, the address of main's variable: the store_ptr every caller passes
StorePtr == 1
\* content of a slot of pairs[] that was never written
Uninit == -1
\* owner of an unlocked mutex
Nobody == -2
\* the thread running main()
Main == -1
\* a mutex that is not initialised, or destroyed
NoMutex == -3
\* store_create's default capacity
DefaultCapacity == 8

Workers == 0 .. (NumWorkers - 1)
\* SpecFree: the client threads
Clients == {0, 1}
ClientKeys == {"a", "b"}
\* SpecSeq: the calling thread, and the keys it uses
Caller == 0
SeqKeys == {"a", "b", "c"}
\* (const char*)NULL passed for a key or a value
NoString == "<NULL>"

VARIABLES
    store,       \* main's `KeyValueStore* store`, the target of store_ptr
    blocks,      \* heap of store blocks: address -> block
    strs,        \* heap of strings: address -> [live, s]
    main_mutex,  \* owner of the harness's main_mutex, or Nobody
    pc,          \* thread -> position in the code
    loc,         \* thread -> local variables (and per-call bookkeeping)
    fails,       \* allocation failures injected so far
    succ,        \* bookkeeping: number of upsert calls that returned true
    hist         \* bookkeeping: lock acquisitions, and the last value
                 \* successfully upserted for each key

vars == <<store, blocks, strs, main_mutex, pc, loc, fails, succ, hist>>

Threads == DOMAIN pc

\* ----------------------------------------------------------- bookkeeping
\* no lock taken and no key upserted yet
NoHist == [acq |-> 0, last |-> [k \in {} |-> NULL]]

\* one more acquisition of the content lock; its number is h.acq + 1
Acquired(h) == [h EXCEPT !.acq = @ + 1]

\* an upsert of key with value, which took the lock as acquisition number
\* ticket, has returned true: it is the last writer of key unless a later
\* acquirer has already written
Committed(h, key, value, ticket) ==
    IF key \in DOMAIN h.last /\ h.last[key].ticket > ticket
    THEN h
    ELSE [h EXCEPT !.last =
            [k \in DOMAIN h.last \cup {key} |->
                IF k = key THEN [value |-> value, ticket |-> ticket]
                ELSE h.last[k]]]

\* ------------------------------------------------------------ formatting
Digit == <<"0", "1", "2", "3", "4", "5", "6", "7", "8", "9">>

RECURSIVE FormatInt(_)
\* printf's %d of a non-negative int
FormatInt(n) ==
    IF n < 10 THEN Digit[n + 1]
    ELSE FormatInt(n \div 10) \o Digit[(n % 10) + 1]

\* KeyOf with the thread id left out of the format
KeyOfNoThread(t, i) == "key_i" \o FormatInt(i)

\* snprintf(key_buffer, ..., "key_t%d_i%d", thread_id, i)
KeyOf(t, i) == "key_t" \o FormatInt(t) \o "_i" \o FormatInt(i)

\* snprintf(value_buffer, ..., "value_from_thread_%d", thread_id)
ValueOf(t) == "value_from_thread_" \o FormatInt(t)

UpdatedValue == "UPDATED_VALUE"

\* the value a client passes on its n-th call
ClientValue(t, n) == "v" \o FormatInt(t) \o FormatInt(n)

\* ------------------------------------------------------------------ heap
UninitPair == [key |-> Uninit, value |-> Uninit]

\* may one more allocation fail?
MayFail == fails < MaxAllocFailures

\* the address malloc returns for a new string
NewStr == Len(strs) + 1

\* duplicate_string allocating the string without the strcpy
duplicate_string_no_copy(heap, src) == Append(heap, [live |-> TRUE, s |-> ""])

\* duplicate_string on success: the heap with a copy of src at NewStr
duplicate_string(heap, src) == Append(heap, [live |-> TRUE, s |-> src])

\* free() of a string
FreeStr(heap, p) ==
    IF p \in DOMAIN heap THEN [heap EXCEPT ![p].live = FALSE] ELSE heap

\* the address malloc/realloc returns for a new block
NewBlock == Len(blocks) + 1

IsLive(a) == a \in DOMAIN blocks /\ blocks[a].live

\* CreateCapacity without the default for 0
CreateCapacityAsGiven(initial_capacity) == initial_capacity

\* store_create's normalisation of its argument
CreateCapacity(initial_capacity) ==
    IF initial_capacity = 0 THEN DefaultCapacity ELSE initial_capacity

\* the block store_create returns
CreatedBlock(initial_capacity) ==
    [live |-> TRUE,
     mutex |-> Nobody,
     add_count |-> 0,
     item_count |-> 0,
     capacity |-> CreateCapacity(initial_capacity),
     pairs |-> [i \in 1 .. CreateCapacity(initial_capacity) |-> UninitPair]]

\* FreedBlock for a free() that releases nothing
FreedBlockKept(b) == b

\* a block of freed memory: its bytes are no longer the store's
FreedBlock(b) == [b EXCEPT !.live = FALSE]

\* NewCapacity growing by one slot
NewCapacityPlusOne(b) == b.capacity + 1

\* new_capacity = capacity * 2
NewCapacity(b) == b.capacity * 2

\* ReallocBytes with a size one pair short of the old block: the last old
\* pair is not carried over
ReallocBytesShort(b, new_capacity) ==
    [b EXCEPT !.pairs =
        [i \in 1 .. new_capacity |->
            IF i < Len(b.pairs) THEN b.pairs[i] ELSE UninitPair]]

\* what realloc leaves in the (new or same) block: the old bytes, with room
\* for new_capacity pairs; the added slots are uninitialised
ReallocBytes(b, new_capacity) ==
    [b EXCEPT !.pairs =
        [i \in 1 .. new_capacity |->
            IF i <= Len(b.pairs) THEN b.pairs[i] ELSE UninitPair]]

\* NeedsGrowth with > for >=
NeedsGrowthLate(b) == b.item_count > b.capacity

\* (*store_ptr)->item_count >= (*store_ptr)->capacity
NeedsGrowth(b) == b.item_count >= b.capacity

\* atomic_fetch_add(&add_count, 1).  add_count is an atomic_uint: it wraps at
\* 2^32, which no run of fewer than 2^32 successful calls reaches, so the sum
\* is left unreduced.
FetchAdd(n) == n + 1

\* FindKey with the loop bound off by one (i < item_count - 1)
FindKeySkipLast(b, key) ==
    LET hits == {i \in 1 .. (b.item_count - 1) :
                    /\ i \in DOMAIN b.pairs
                    /\ b.pairs[i].key \in DOMAIN strs
                    /\ strs[b.pairs[i].key].s = key}
    IN  IF hits = {} THEN 0 ELSE CHOOSE i \in hits : \A j \in hits : i <= j

\* the scan loop of upsert and lookup: the least C index i < item_count with
\* strcmp(pairs[i].key, key) == 0, as a 1-based position; 0 when there is none
FindKey(b, key) ==
    LET hits == {i \in 1 .. b.item_count :
                    /\ i \in DOMAIN b.pairs
                    /\ b.pairs[i].key \in DOMAIN strs
                    /\ strs[b.pairs[i].key].s = key}
    IN  IF hits = {} THEN 0 ELSE CHOOSE i \in hits : \A j \in hits : i <= j

\* ------------------------------------------------------- locals of a thread
NoSnap == [store |-> NULL, item_count |-> 0, capacity |-> 0,
           add_count |-> 0, entries |-> <<>>, content |-> <<>>]

\* pairs[i - 1] of block b; past the end of the block the bytes are not the
\* store's
PairAt(b, i) == IF i \in DOMAIN b.pairs THEN b.pairs[i] ELSE UninitPair

\* the live entries of block b: pointers, and the strings they point to
Entries(b) == [i \in 1 .. b.item_count |-> PairAt(b, i)]

\* the string a pointer designates; a freed or unset pointer designates none
StrAt(p) ==
    IF p \in DOMAIN strs /\ strs[p].live THEN strs[p].s ELSE "<dangling>"

Content(b) ==
    [i \in 1 .. b.item_count |->
        [key |-> StrAt(PairAt(b, i).key), value |-> StrAt(PairAt(b, i).value)]]

\* what a caller can see of the store when it makes a call
Snapshot ==
    IF IsLive(store)
    THEN [store |-> store,
          item_count |-> blocks[store].item_count,
          capacity |-> blocks[store].capacity,
          add_count |-> blocks[store].add_count,
          entries |-> Entries(blocks[store]),
          content |-> Content(blocks[store])]
    ELSE NoSnap

Locals ==
    [store_ptr |-> NULL,              \* upsert's `store_ptr` argument
     key |-> "", value |-> "",       \* the caller's key and value buffers
     i |-> 0,                         \* loop counter / calls made
     site |-> "none",                 \* which call of the caller is running
     lk |-> NULL,                     \* block whose mutex mtx_lock was given
     idx |-> 0,                       \* position found by the scan
     new_capacity |-> 0,
     new_store |-> NULL, new_key |-> NULL, new_value |-> NULL,
     res |-> FALSE,                   \* upsert's return value
     sarg |-> NULL,                   \* store_get_value's `store` argument
     found |-> NULL,                  \* store_get_value's found_value
     initial_capacity |-> 0,          \* the argument given to store_create
     count |-> 0,                     \* the last value read from add_count
     final_store |-> NULL,            \* main's locals
     original_val |-> NULL, updated_val |-> NULL,
     path |-> "none",                 \* bookkeeping: path the call took
     ticket |-> 0,                    \* bookkeeping: the call's lock acquisition
     pre |-> NoSnap]                  \* bookkeeping: Snapshot at call entry


\* NextSlot always giving the first slot
NextSlotFront(b) == 1

\* the slot pairs[item_count], as a position of the model's pairs
NextSlot(b) == b.item_count + 1

\* a write to pairs[n - 1]; outside the block it does not land in pairs
WriteSlot(b, n, field, p) ==
    IF n \in DOMAIN b.pairs
    THEN [b EXCEPT !.pairs[n][field] = p]
    ELSE b

\* mtx_unlock(&a->mutex)
Unlock(bs, a) == [bs EXCEPT ![a].mutex = Nobody]

\* a call is over: its temporaries are dead
Return(l, r, p) ==
    [l EXCEPT !.res = r, !.path = p, !.lk = NULL, !.idx = 0,
              !.new_capacity = 0, !.new_store = NULL,
              !.new_key = NULL, !.new_value = NULL]

\* --------------------------------------------- store_add_or_update_item
\* Every step reads the store through *store_ptr again, as the code does.

\* upsert_check without the test of value
upsert_check_no_value(t) ==
    /\ pc[t] = "u_check"
    /\ IF \/ loc[t].store_ptr = NULL
          \/ store = NULL
          \/ loc[t].key = NoString
       THEN /\ pc' = [pc EXCEPT ![t] = "u_ret"]
            /\ loc' = [loc EXCEPT
                        ![t] = Return([@ EXCEPT !.pre = Snapshot],
                                      FALSE, "invalid")]
       ELSE /\ pc' = [pc EXCEPT ![t] = "u_lock"]
            /\ loc' = [loc EXCEPT ![t].lk = store, ![t].pre = Snapshot,
                                  ![t].path = "none"]
    /\ UNCHANGED <<store, blocks, strs, main_mutex, fails, succ, hist>>

\* line 45, and the evaluation of &(*store_ptr)->mutex for mtx_lock (line 48)
upsert_check(t) ==
    /\ pc[t] = "u_check"
    /\ IF \/ loc[t].store_ptr = NULL
          \/ store = NULL
          \/ loc[t].key = NoString
          \/ loc[t].value = NoString
       THEN /\ pc' = [pc EXCEPT ![t] = "u_ret"]
            /\ loc' = [loc EXCEPT
                        ![t] = Return([@ EXCEPT !.pre = Snapshot],
                                      FALSE, "invalid")]
       ELSE /\ pc' = [pc EXCEPT ![t] = "u_lock"]
            /\ loc' = [loc EXCEPT ![t].lk = store, ![t].pre = Snapshot,
                                  ![t].path = "none"]
    /\ UNCHANGED <<store, blocks, strs, main_mutex, fails, succ, hist>>

\* line 48: mtx_lock returns once the mutex is free
upsert_lock(t) ==
    /\ pc[t] = "u_lock"
    /\ IsLive(loc[t].lk)
    /\ blocks[loc[t].lk].mutex = Nobody
    /\ blocks' = [blocks EXCEPT ![loc[t].lk].mutex = t]
    /\ pc' = [pc EXCEPT ![t] = "u_scan"]
    /\ hist' = Acquired(hist)
    /\ loc' = [loc EXCEPT ![t].ticket = hist.acq + 1]
    /\ UNCHANGED <<store, strs, main_mutex, fails, succ>>

\* lines 50-51: the scan for the key
upsert_scan(t) ==
    /\ pc[t] = "u_scan"
    /\ IsLive(store)
    /\ LET i == FindKey(blocks[store], loc[t].key)
       IN  /\ loc' = [loc EXCEPT ![t].idx = i]
           /\ pc' = [pc EXCEPT ![t] = IF i # 0 THEN "u_upd_dup" ELSE "u_grow"]
    /\ UNCHANGED <<store, blocks, strs, main_mutex, fails, succ, hist>>

\* upsert_update_dup with the old value freed before the copy is checked
upsert_update_dup_after_free(t) ==
    /\ pc[t] = "u_upd_dup"
    /\ IsLive(store)
    /\ \/ /\ strs' = duplicate_string(strs, loc[t].value)
          /\ loc' = [loc EXCEPT ![t].new_value = NewStr]
          /\ pc' = [pc EXCEPT ![t] = "u_upd_free"]
          /\ UNCHANGED <<blocks, fails>>
       \/ /\ MayFail
          /\ fails' = fails + 1
          /\ blocks' = Unlock(blocks, store)
          /\ loc' = [loc EXCEPT ![t] = Return(@, FALSE, "update_fail")]
          /\ pc' = [pc EXCEPT ![t] = "u_ret"]
          /\ strs' = FreeStr(strs, blocks[store].pairs[loc[t].idx].value)
    /\ UNCHANGED <<store, main_mutex, succ, hist>>

\* lines 52-56: copy the new value; on failure unlock and return false
upsert_update_dup(t) ==
    /\ pc[t] = "u_upd_dup"
    /\ IsLive(store)
    /\ \/ /\ strs' = duplicate_string(strs, loc[t].value)
          /\ loc' = [loc EXCEPT ![t].new_value = NewStr]
          /\ pc' = [pc EXCEPT ![t] = "u_upd_free"]
          /\ UNCHANGED <<blocks, fails>>
       \/ /\ MayFail
          /\ fails' = fails + 1
          /\ blocks' = Unlock(blocks, store)
          /\ loc' = [loc EXCEPT ![t] = Return(@, FALSE, "update_fail")]
          /\ pc' = [pc EXCEPT ![t] = "u_ret"]
          /\ UNCHANGED strs
    /\ UNCHANGED <<store, main_mutex, succ, hist>>

\* upsert_update_free without the free of the old value
upsert_update_free_skip(t) ==
    /\ pc[t] = "u_upd_free"
    /\ IsLive(store)
    /\ pc' = [pc EXCEPT ![t] = "u_upd_store"]
    /\ UNCHANGED <<store, blocks, strs, main_mutex, loc, fails, succ, hist>>

\* line 57: free the old value
upsert_update_free(t) ==
    /\ pc[t] = "u_upd_free"
    /\ IsLive(store)
    /\ strs' = FreeStr(strs, blocks[store].pairs[loc[t].idx].value)
    /\ pc' = [pc EXCEPT ![t] = "u_upd_store"]
    /\ UNCHANGED <<store, blocks, main_mutex, loc, fails, succ, hist>>

\* upsert_update_store that takes the 1-based position for a C index
upsert_update_store_next(t) ==
    /\ pc[t] = "u_upd_store"
    /\ IsLive(store)
    /\ blocks' = [blocks EXCEPT
            ![store] = WriteSlot(@, (loc[t].idx % @.item_count) + 1, "value",
                                 loc[t].new_value)]
    /\ pc' = [pc EXCEPT ![t] = "u_upd_count"]
    /\ UNCHANGED <<store, strs, main_mutex, loc, fails, succ, hist>>

\* line 58: store the new value
upsert_update_store(t) ==
    /\ pc[t] = "u_upd_store"
    /\ IsLive(store)
    /\ blocks' = [blocks EXCEPT
                    ![store].pairs[loc[t].idx].value = loc[t].new_value]
    /\ pc' = [pc EXCEPT ![t] = "u_upd_count"]
    /\ UNCHANGED <<store, strs, main_mutex, loc, fails, succ, hist>>

\* upsert_update_count that does not count an update
upsert_update_count_skip(t) ==
    /\ pc[t] = "u_upd_count"
    /\ IsLive(store)
    /\ pc' = [pc EXCEPT ![t] = "u_upd_unlock"]
    /\ UNCHANGED <<store, blocks, strs, main_mutex, loc, fails, succ, hist>>

\* line 59: count the update
upsert_update_count(t) ==
    /\ pc[t] = "u_upd_count"
    /\ IsLive(store)
    /\ blocks' = [blocks EXCEPT ![store].add_count = FetchAdd(@)]
    /\ pc' = [pc EXCEPT ![t] = "u_upd_unlock"]
    /\ UNCHANGED <<store, strs, main_mutex, loc, fails, succ, hist>>

\* lines 60-61: unlock and return true
upsert_update_return(t) ==
    /\ pc[t] = "u_upd_unlock"
    /\ IsLive(store)
    /\ blocks' = Unlock(blocks, store)
    /\ loc' = [loc EXCEPT ![t] = Return(@, TRUE, "update")]
    /\ pc' = [pc EXCEPT ![t] = "u_ret"]
    /\ succ' = succ + 1
    /\ hist' = Committed(hist, loc[t].key, loc[t].value, loc[t].ticket)
    /\ UNCHANGED <<store, strs, main_mutex, fails>>

\* upsert_grow with realloc's result assigned straight to *store_ptr, so
\* that a failure overwrites it with NULL
upsert_grow_unsafe(t) ==
    /\ pc[t] = "u_grow"
    /\ IsLive(store)
    /\ IF ~NeedsGrowth(blocks[store])
       THEN /\ pc' = [pc EXCEPT ![t] = "u_dup"]
            /\ UNCHANGED <<store, blocks, loc, fails>>
       ELSE LET new_capacity == NewCapacity(blocks[store])
            IN  \/ /\ MayFail
                   /\ fails' = fails + 1
                   /\ store' = NULL
                   /\ loc' = [loc EXCEPT ![t] = Return(@, FALSE, "grow_fail")]
                   /\ pc' = [pc EXCEPT ![t] = "u_ret"]
                   /\ UNCHANGED blocks
                \/ /\ blocks' = [blocks EXCEPT
                            ![store] = ReallocBytes(@, new_capacity)]
                   /\ loc' = [loc EXCEPT ![t].new_capacity = new_capacity,
                                         ![t].new_store = store]
                   /\ pc' = [pc EXCEPT ![t] = "u_grow_assign"]
                   /\ UNCHANGED <<store, fails>>
                \/ /\ blocks' = Append(
                            [blocks EXCEPT ![store] = FreedBlock(@)],
                            ReallocBytes(blocks[store], new_capacity))
                   /\ loc' = [loc EXCEPT ![t].new_capacity = new_capacity,
                                         ![t].new_store = NewBlock]
                   /\ pc' = [pc EXCEPT ![t] = "u_grow_assign"]
                   /\ UNCHANGED <<store, fails>>
    /\ UNCHANGED <<strs, main_mutex, succ, hist>>

\* lines 65-72: the growth check and realloc.  realloc fails, grows the
\* block where it is, or moves it and frees the old block.
upsert_grow(t) ==
    /\ pc[t] = "u_grow"
    /\ IsLive(store)
    /\ IF ~NeedsGrowth(blocks[store])
       THEN /\ pc' = [pc EXCEPT ![t] = "u_dup"]
            /\ UNCHANGED <<blocks, loc, fails>>
       ELSE LET new_capacity == NewCapacity(blocks[store])
            IN  \/ /\ MayFail
                   /\ fails' = fails + 1
                   /\ blocks' = Unlock(blocks, store)
                   /\ loc' = [loc EXCEPT ![t] = Return(@, FALSE, "grow_fail")]
                   /\ pc' = [pc EXCEPT ![t] = "u_ret"]
                \/ /\ blocks' = [blocks EXCEPT
                            ![store] = ReallocBytes(@, new_capacity)]
                   /\ loc' = [loc EXCEPT ![t].new_capacity = new_capacity,
                                         ![t].new_store = store]
                   /\ pc' = [pc EXCEPT ![t] = "u_grow_assign"]
                   /\ UNCHANGED fails
                \/ /\ blocks' = Append(
                            [blocks EXCEPT ![store] = FreedBlock(@)],
                            ReallocBytes(blocks[store], new_capacity))
                   /\ loc' = [loc EXCEPT ![t].new_capacity = new_capacity,
                                         ![t].new_store = NewBlock]
                   /\ pc' = [pc EXCEPT ![t] = "u_grow_assign"]
                   /\ UNCHANGED fails
    /\ UNCHANGED <<store, strs, main_mutex, succ, hist>>

\* lines 73-74: *store_ptr = new_store; (*store_ptr)->capacity = new_capacity
upsert_grow_assign(t) ==
    /\ pc[t] = "u_grow_assign"
    /\ IsLive(loc[t].new_store)
    /\ store' = loc[t].new_store
    /\ blocks' = [blocks EXCEPT
                    ![loc[t].new_store].capacity = loc[t].new_capacity]
    /\ pc' = [pc EXCEPT ![t] = "u_dup"]
    /\ UNCHANGED <<strs, main_mutex, loc, fails, succ, hist>>

\* lines 77-84: copy key and value; if either copy fails free both, unlock
\* and return false
upsert_dup(t) ==
    /\ pc[t] = "u_dup"
    /\ IsLive(store)
    /\ \E kfail, vfail \in BOOLEAN :
        LET n == (IF kfail THEN 1 ELSE 0) + (IF vfail THEN 1 ELSE 0)
            heap1 == IF kfail THEN strs ELSE duplicate_string(strs, loc[t].key)
            new_key == IF kfail THEN NULL ELSE Len(heap1)
            heap2 == IF vfail THEN heap1
                     ELSE duplicate_string(heap1, loc[t].value)
            new_value == IF vfail THEN NULL ELSE Len(heap2)
        IN  /\ fails + n <= MaxAllocFailures
            /\ fails' = fails + n
            /\ IF kfail \/ vfail
               THEN /\ strs' = FreeStr(FreeStr(heap2, new_key), new_value)
                    /\ blocks' = Unlock(blocks, store)
                    /\ loc' = [loc EXCEPT ![t] = Return(@, FALSE, "copy_fail")]
                    /\ pc' = [pc EXCEPT ![t] = "u_ret"]
               ELSE /\ strs' = heap2
                    /\ loc' = [loc EXCEPT ![t].new_key = new_key,
                                          ![t].new_value = new_value]
                    /\ pc' = [pc EXCEPT ![t] = "u_put_key"]
                    /\ UNCHANGED blocks
    /\ UNCHANGED <<store, main_mutex, succ, hist>>

\* line 86
upsert_put_key(t) ==
    /\ pc[t] = "u_put_key"
    /\ IsLive(store)
    /\ blocks' = [blocks EXCEPT
            ![store] = WriteSlot(@, NextSlot(@), "key", loc[t].new_key)]
    /\ pc' = [pc EXCEPT ![t] = "u_put_value"]
    /\ UNCHANGED <<store, strs, main_mutex, loc, fails, succ, hist>>

\* line 87
upsert_put_value(t) ==
    /\ pc[t] = "u_put_value"
    /\ IsLive(store)
    /\ blocks' = [blocks EXCEPT
            ![store] = WriteSlot(@, NextSlot(@), "value", loc[t].new_value)]
    /\ pc' = [pc EXCEPT ![t] = "u_inc_items"]
    /\ UNCHANGED <<store, strs, main_mutex, loc, fails, succ, hist>>

\* upsert_inc_items counting two entries for one written slot
upsert_inc_items_twice(t) ==
    /\ pc[t] = "u_inc_items"
    /\ IsLive(store)
    /\ blocks' = [blocks EXCEPT ![store].item_count = @ + 2]
    /\ pc' = [pc EXCEPT ![t] = "u_ins_count"]
    /\ UNCHANGED <<store, strs, main_mutex, loc, fails, succ, hist>>

\* line 88: item_count++
upsert_inc_items(t) ==
    /\ pc[t] = "u_inc_items"
    /\ IsLive(store)
    /\ blocks' = [blocks EXCEPT ![store].item_count = @ + 1]
    /\ pc' = [pc EXCEPT ![t] = "u_ins_count"]
    /\ UNCHANGED <<store, strs, main_mutex, loc, fails, succ, hist>>

\* upsert_insert_count without the fetch_add
upsert_insert_count_skip(t) ==
    /\ pc[t] = "u_ins_count"
    /\ IsLive(store)
    /\ pc' = [pc EXCEPT ![t] = "u_ins_unlock"]
    /\ UNCHANGED <<store, blocks, strs, main_mutex, loc, fails, succ, hist>>

\* line 90: count the insert
upsert_insert_count(t) ==
    /\ pc[t] = "u_ins_count"
    /\ IsLive(store)
    /\ blocks' = [blocks EXCEPT ![store].add_count = FetchAdd(@)]
    /\ pc' = [pc EXCEPT ![t] = "u_ins_unlock"]
    /\ UNCHANGED <<store, strs, main_mutex, loc, fails, succ, hist>>

\* lines 91-92: unlock and return true
upsert_insert_return(t) ==
    /\ pc[t] = "u_ins_unlock"
    /\ IsLive(store)
    /\ blocks' = Unlock(blocks, store)
    /\ loc' = [loc EXCEPT ![t] = Return(@, TRUE, "insert")]
    /\ pc' = [pc EXCEPT ![t] = "u_ret"]
    /\ succ' = succ + 1
    /\ hist' = Committed(hist, loc[t].key, loc[t].value, loc[t].ticket)
    /\ UNCHANGED <<store, strs, main_mutex, fails>>

\* one step of a running store_add_or_update_item call
store_add_or_update_item(t) ==
    \/ upsert_check(t)
    \/ upsert_lock(t)
    \/ upsert_scan(t)
    \/ upsert_update_dup(t)
    \/ upsert_update_free(t)
    \/ upsert_update_store(t)
    \/ upsert_update_count(t)
    \/ upsert_update_return(t)
    \/ upsert_grow(t)
    \/ upsert_grow_assign(t)
    \/ upsert_dup(t)
    \/ upsert_put_key(t)
    \/ upsert_put_value(t)
    \/ upsert_inc_items(t)
    \/ upsert_insert_count(t)
    \/ upsert_insert_return(t)


\* ------------------------------------------------------- store_get_value

\* line 96
get_check(t) ==
    /\ pc[t] = "g_check"
    /\ IF loc[t].sarg = NULL \/ loc[t].key = NoString
       THEN /\ pc' = [pc EXCEPT ![t] = "g_ret"]
            /\ loc' = [loc EXCEPT ![t].found = NULL, ![t].pre = Snapshot]
       ELSE /\ pc' = [pc EXCEPT ![t] = "g_lock"]
            /\ loc' = [loc EXCEPT ![t].pre = Snapshot]
    /\ UNCHANGED <<store, blocks, strs, main_mutex, fails, succ, hist>>

\* line 98
get_lock(t) ==
    /\ pc[t] = "g_lock"
    /\ IsLive(loc[t].sarg)
    /\ blocks[loc[t].sarg].mutex = Nobody
    /\ blocks' = [blocks EXCEPT ![loc[t].sarg].mutex = t]
    /\ pc' = [pc EXCEPT ![t] = "g_scan"]
    /\ UNCHANGED <<store, strs, main_mutex, loc, fails, succ, hist>>

\* FoundValue returning the entry's key pointer
FoundValueKey(b, key) ==
    IF FindKey(b, key) = 0 THEN NULL ELSE b.pairs[FindKey(b, key)].key

\* found_value after the loop of lines 99-105 over the bytes of block b
FoundValue(b, key) ==
    IF FindKey(b, key) = 0 THEN NULL ELSE b.pairs[FindKey(b, key)].value

\* lines 99-105
get_scan(t) ==
    /\ pc[t] = "g_scan"
    /\ IsLive(loc[t].sarg)
    /\ loc' = [loc EXCEPT
                 ![t].found = FoundValue(blocks[loc[t].sarg], loc[t].key)]
    /\ pc' = [pc EXCEPT ![t] = "g_unlock"]
    /\ UNCHANGED <<store, blocks, strs, main_mutex, fails, succ, hist>>

\* lines 106-107
get_return(t) ==
    /\ pc[t] = "g_unlock"
    /\ IsLive(loc[t].sarg)
    /\ blocks' = Unlock(blocks, loc[t].sarg)
    /\ pc' = [pc EXCEPT ![t] = "g_ret"]
    /\ UNCHANGED <<store, strs, main_mutex, loc, fails, succ, hist>>

\* one step of a running store_get_value call
store_get_value(t) ==
    \/ get_check(t)
    \/ get_lock(t)
    \/ get_scan(t)
    \/ get_return(t)

\* ----------------------------------------------------------- store_destroy

RECURSIVE FreeAll(_, _)
\* free() of every pointer of the sequence ps
FreeAll(heap, ps) ==
    IF ps = <<>> THEN heap ELSE FreeAll(FreeStr(heap, Head(ps)), Tail(ps))

\* lines 36-39: the keys and values freed by the loop, in order
DestroyedStrings(b) ==
    IF b.item_count = 0 THEN <<>>
    ELSE [n \in 1 .. 2 * b.item_count |->
            IF n % 2 = 1 THEN b.pairs[(n + 1) \div 2].key
            ELSE b.pairs[n \div 2].value]

\* ------------------------------------------------- worker_thread (harness)

\* worker_lock without the mtx_lock of main_mutex
worker_lock_no_mutex(t) ==
    /\ pc[t] = "w_loop"
    /\ UNCHANGED main_mutex
    /\ IF loc[t].i < ItemsPerThread
       THEN loc' = [loc EXCEPT ![t].store_ptr = StorePtr,
                               ![t].key = KeyOf(t, loc[t].i),
                               ![t].value = ValueOf(t),
                               ![t].site = "loop"]
       ELSE loc' = [loc EXCEPT ![t].store_ptr = StorePtr,
                               ![t].key = KeyOf(t, 0),
                               ![t].value = UpdatedValue,
                               ![t].site = "final"]
    /\ pc' = [pc EXCEPT ![t] = "u_check"]
    /\ UNCHANGED <<store, blocks, strs, fails, succ, hist>>

\* lines 18-27, 35-38: format the next key and value into the buffers, then
\* mtx_lock(data->main_mutex) and make the call
worker_lock(t) ==
    /\ pc[t] = "w_loop"
    /\ main_mutex = Nobody
    /\ main_mutex' = t
    /\ IF loc[t].i < ItemsPerThread
       THEN loc' = [loc EXCEPT ![t].store_ptr = StorePtr,
                               ![t].key = KeyOf(t, loc[t].i),
                               ![t].value = ValueOf(t),
                               ![t].site = "loop"]
       ELSE loc' = [loc EXCEPT ![t].store_ptr = StorePtr,
                               ![t].key = KeyOf(t, 0),
                               ![t].value = UpdatedValue,
                               ![t].site = "final"]
    /\ pc' = [pc EXCEPT ![t] = "u_check"]
    /\ UNCHANGED <<store, blocks, strs, fails, succ, hist>>

\* lines 28-33, 40-43: the call is over; mtx_unlock(data->main_mutex)
worker_unlock(t) ==
    /\ pc[t] = "u_ret"
    /\ loc[t].site \in {"loop", "final"}
    /\ main_mutex' = Nobody
    /\ IF loc[t].site = "loop"
       THEN /\ pc' = [pc EXCEPT ![t] = "w_loop"]
            /\ loc' = [loc EXCEPT ![t].i = @ + 1, ![t].site = "none",
                                  ![t].pre = NoSnap, ![t].path = "none"]
       ELSE /\ pc' = [pc EXCEPT ![t] = "w_done"]
            /\ loc' = [loc EXCEPT ![t].site = "none",
                                  ![t].pre = NoSnap, ![t].path = "none"]
    /\ UNCHANGED <<store, blocks, strs, fails, succ, hist>>

worker_thread(t) ==
    \/ worker_lock(t)
    \/ worker_unlock(t)

\* ----------------------------------------------------------- main (harness)

\* store_create returning NULL on a failed mtx_init without the free
store_create_leak(initial_capacity) ==
    \/ /\ blocks' = Append(blocks, CreatedBlock(initial_capacity))
       /\ store' = NewBlock
       /\ UNCHANGED fails
    \/ /\ MayFail
       /\ fails' = fails + 1
       /\ \/ UNCHANGED blocks
          \/ blocks' = Append(blocks, CreatedBlock(initial_capacity))
       /\ store' = NULL

\* store = store_create(initial_capacity).  The store is returned; or malloc
\* fails; or mtx_init fails and the block is freed.
store_create(initial_capacity) ==
    \/ /\ blocks' = Append(blocks, CreatedBlock(initial_capacity))
       /\ store' = NewBlock
       /\ UNCHANGED fails
    \/ /\ MayFail
       /\ fails' = fails + 1
       /\ \/ UNCHANGED blocks
          \/ blocks' = Append(blocks,
                              FreedBlock(CreatedBlock(initial_capacity)))
       /\ store' = NULL

\* lines 47-51: store = store_create(10); exit if it is NULL
main_create ==
    /\ pc[Main] = "m_create"
    /\ store_create(HarnessCapacity)
    /\ pc' = [pc EXCEPT ![Main] =
                IF store' = NULL THEN "m_exit" ELSE "m_mtx_init"]
    /\ UNCHANGED <<strs, main_mutex, loc, succ, hist>>

\* store_destroy(a): the heaps after lines 35-41
DestroyStrs(a) ==
    IF IsLive(a) THEN FreeAll(strs, DestroyedStrings(blocks[a])) ELSE strs

DestroyBlocks(a) ==
    IF IsLive(a) THEN [blocks EXCEPT ![a] = FreedBlock(@)] ELSE blocks

\* lines 57-62: mtx_init(&main_mutex); on failure destroy the store and exit
main_mtx_init ==
    /\ pc[Main] = "m_mtx_init"
    /\ \/ /\ main_mutex' = Nobody
          /\ pc' = [pc EXCEPT ![Main] = "m_spawn"]
          /\ UNCHANGED <<blocks, strs, fails>>
       \/ /\ MayFail
          /\ fails' = fails + 1
          /\ strs' = DestroyStrs(store)
          /\ blocks' = DestroyBlocks(store)
          /\ pc' = [pc EXCEPT ![Main] = "m_exit"]
          /\ UNCHANGED main_mutex
    /\ UNCHANGED <<store, loc, succ, hist>>

\* lines 67-76: thrd_create of worker i; a failure is only reported
main_spawn ==
    /\ pc[Main] = "m_spawn"
    /\ IF loc[Main].i < NumWorkers
       THEN /\ loc' = [loc EXCEPT ![Main].i = @ + 1]
            /\ \/ /\ pc' = [pc EXCEPT ![loc[Main].i] = "w_loop"]
                  /\ UNCHANGED fails
               \/ /\ MayFail
                  /\ fails' = fails + 1
                  /\ UNCHANGED pc
       ELSE /\ loc' = [loc EXCEPT ![Main].i = 0]
            /\ pc' = [pc EXCEPT ![Main] = "m_join"]
            /\ UNCHANGED fails
    /\ UNCHANGED <<store, blocks, strs, main_mutex, succ, hist>>

\* main_join with thrd_join returning at once, whatever the worker is doing
main_join_no_wait ==
    /\ pc[Main] = "m_join"
    /\ IF loc[Main].i < NumWorkers
       THEN /\ loc' = [loc EXCEPT ![Main].i = @ + 1]
            /\ UNCHANGED pc
       ELSE /\ loc' = [loc EXCEPT ![Main].i = 0]
            /\ pc' = [pc EXCEPT ![Main] = "m_read"]
    /\ UNCHANGED <<store, blocks, strs, main_mutex, fails, succ, hist>>

\* lines 78-80: thrd_join of worker i returns once the worker has returned.
\* Joining a thread that was never created reads an indeterminate thrd_t:
\* the call returns or never does.
main_join ==
    /\ pc[Main] = "m_join"
    /\ IF loc[Main].i < NumWorkers
       THEN IF pc[loc[Main].i] = "w_none"
            THEN \/ /\ loc' = [loc EXCEPT ![Main].i = @ + 1]
                    /\ UNCHANGED pc
                 \/ /\ pc' = [pc EXCEPT ![Main] = "hung"]
                    /\ UNCHANGED loc
            ELSE /\ pc[loc[Main].i] = "w_done"
                 /\ loc' = [loc EXCEPT ![Main].i = @ + 1]
                 /\ UNCHANGED pc
       ELSE /\ loc' = [loc EXCEPT ![Main].i = 0]
            /\ pc' = [pc EXCEPT ![Main] = "m_read"]
    /\ UNCHANGED <<store, blocks, strs, main_mutex, fails, succ, hist>>

\* the item main looks up as an untouched one ("key_t1_i50" of 100)
ProbeItem == ItemsPerThread \div 2

\* lines 89-93: final_store = *store_ptr; store_get_value(final_store, ...)
main_read ==
    /\ pc[Main] = "m_read"
    /\ loc' = [loc EXCEPT ![Main].final_store = store,
                          ![Main].sarg = store,
                          ![Main].key = KeyOf(1, ProbeItem),
                          ![Main].site = "get1"]
    /\ pc' = [pc EXCEPT ![Main] = "g_check"]
    /\ UNCHANGED <<store, blocks, strs, main_mutex, fails, succ, hist>>

\* lines 93-94: original_val is set; store_get_value(final_store, "key_t1_i0")
main_get2 ==
    /\ pc[Main] = "g_ret"
    /\ loc[Main].site = "get1"
    /\ loc' = [loc EXCEPT ![Main].original_val = loc[Main].found,
                          ![Main].sarg = loc[Main].final_store,
                          ![Main].key = KeyOf(1, 0),
                          ![Main].site = "get2"]
    /\ pc' = [pc EXCEPT ![Main] = "g_check"]
    /\ UNCHANGED <<store, blocks, strs, main_mutex, fails, succ, hist>>

\* lines 94-98: updated_val is set and both values are printed
main_print ==
    /\ pc[Main] = "g_ret"
    /\ loc[Main].site = "get2"
    /\ loc' = [loc EXCEPT ![Main].updated_val = loc[Main].found,
                          ![Main].site = "none"]
    /\ pc' = [pc EXCEPT ![Main] = "m_destroy"]
    /\ UNCHANGED <<store, blocks, strs, main_mutex, fails, succ, hist>>

\* lines 101-105: mtx_destroy(&main_mutex); store_destroy(final_store)
main_destroy ==
    /\ pc[Main] = "m_destroy"
    /\ main_mutex' = NoMutex
    /\ strs' = DestroyStrs(loc[Main].final_store)
    /\ blocks' = DestroyBlocks(loc[Main].final_store)
    /\ pc' = [pc EXCEPT ![Main] = "m_done"]
    /\ UNCHANGED <<store, loc, fails, succ, hist>>

main ==
    \/ main_create
    \/ main_mtx_init
    \/ main_spawn
    \/ main_join
    \/ main_read
    \/ main_get2
    \/ main_print
    \/ main_destroy

\* ------------------------------------------------------------ the harness
Init ==
    /\ store = NULL
    /\ blocks = <<>>
    /\ strs = <<>>
    /\ main_mutex = NoMutex
    /\ pc = [t \in Workers \cup {Main} |->
                IF t = Main THEN "m_create" ELSE "w_none"]
    /\ loc = [t \in Workers \cup {Main} |-> Locals]
    /\ fails = 0
    /\ succ = 0
    /\ hist = NoHist

Next ==
    \/ main
    \/ \E t \in Workers : worker_thread(t)
    \/ \E t \in Workers : store_add_or_update_item(t)
    \/ store_get_value(Main)

Spec == Init /\ [][Next]_vars

\* fair scheduling: main and every worker that can take a step are
\* scheduled, and mtx_lock of main_mutex is fair
Fair ==
    /\ WF_vars(main)
    /\ WF_vars(store_get_value(Main))
    /\ \A w \in Workers :
          /\ WF_vars(worker_thread(w) \/ store_add_or_update_item(w))
          /\ SF_vars(worker_lock(w))

SpecFair == Spec /\ Fair


\* ------------------------------------------------- unsynchronised clients
\* A client calls the store's functions directly, as the header allows.

\* store_add_or_update_item(&store, k, value)
client_upsert(t) ==
    /\ pc[t] = "c_idle"
    /\ loc[t].i < MaxCalls
    /\ \E k \in ClientKeys :
        loc' = [loc EXCEPT ![t].store_ptr = StorePtr,
                           ![t].key = k,
                           ![t].value = ClientValue(t, loc[t].i),
                           ![t].site = "client"]
    /\ pc' = [pc EXCEPT ![t] = "u_check"]
    /\ UNCHANGED <<store, blocks, strs, main_mutex, fails, succ, hist>>

\* store_get_value(store, k): the argument is the handle as read now
client_get(t) ==
    /\ pc[t] = "c_idle"
    /\ loc[t].i < MaxCalls
    /\ \E k \in ClientKeys :
        loc' = [loc EXCEPT ![t].key = k,
                           ![t].sarg = store,
                           ![t].site = "client"]
    /\ pc' = [pc EXCEPT ![t] = "g_check"]
    /\ UNCHANGED <<store, blocks, strs, main_mutex, fails, succ, hist>>

\* (*store_ptr)->add_count read with no lock, as main reads it (lines
\* 89-91): first the load of *store_ptr
client_count(t) ==
    /\ pc[t] = "c_idle"
    /\ loc[t].i < MaxCalls
    /\ loc' = [loc EXCEPT ![t].sarg = store, ![t].site = "client"]
    /\ pc' = [pc EXCEPT ![t] = "r_load"]
    /\ UNCHANGED <<store, blocks, strs, main_mutex, fails, succ, hist>>

\* then the atomic load of add_count in the block at that address
add_count_read(t) ==
    /\ pc[t] = "r_load"
    /\ IsLive(loc[t].sarg)
    /\ loc' = [loc EXCEPT ![t].count = blocks[loc[t].sarg].add_count]
    /\ pc' = [pc EXCEPT ![t] = "r_ret"]
    /\ UNCHANGED <<store, blocks, strs, main_mutex, fails, succ, hist>>

\* the call has returned
client_return(t) ==
    /\ pc[t] \in {"u_ret", "g_ret", "r_ret"}
    /\ loc[t].site = "client"
    /\ loc' = [loc EXCEPT ![t].i = @ + 1, ![t].site = "none",
                          ![t].pre = NoSnap, ![t].path = "none",
                          ![t].sarg = NULL, ![t].found = NULL]
    /\ pc' = [pc EXCEPT ![t] = "c_idle"]
    /\ UNCHANGED <<store, blocks, strs, main_mutex, fails, succ, hist>>

client(t) ==
    \/ client_upsert(t)
    \/ client_get(t)
    \/ client_count(t)
    \/ add_count_read(t)
    \/ client_return(t)

\* ------------------------------------------------ accesses to freed memory
\* Undefined behaviour: what the thread does next is not determined by the
\* code.  It may never return from the call ("hung"), be killed ("crashed"),
\* or carry on with whatever the freed bytes hold.

\* positions of upsert between mtx_lock and mtx_unlock that read *store_ptr
UpsertInside ==
    {"u_scan", "u_upd_dup", "u_upd_free", "u_upd_store", "u_upd_count",
     "u_upd_unlock", "u_grow", "u_dup", "u_put_key", "u_put_value",
     "u_inc_items", "u_ins_count", "u_ins_unlock"}

\* line 48 on a block that realloc has freed
upsert_lock_freed(t) ==
    /\ pc[t] = "u_lock"
    /\ ~IsLive(loc[t].lk)
    /\ \/ /\ pc' = [pc EXCEPT ![t] = "hung"]
          /\ UNCHANGED <<loc, hist>>
       \/ /\ pc' = [pc EXCEPT ![t] = "u_scan"]
          /\ hist' = Acquired(hist)
          /\ loc' = [loc EXCEPT ![t].ticket = hist.acq + 1]
    /\ UNCHANGED <<store, blocks, strs, main_mutex, fails, succ>>

\* a read or write through *store_ptr while it designates a freed block
\* (between another thread's realloc and its line 73)
upsert_use_freed(t) ==
    /\ pc[t] \in UpsertInside
    /\ ~IsLive(store)
    /\ pc' = [pc EXCEPT ![t] = "crashed"]
    /\ UNCHANGED <<store, blocks, strs, main_mutex, loc, fails, succ, hist>>

\* line 98 on a block that realloc has freed
get_lock_freed(t) ==
    /\ pc[t] = "g_lock"
    /\ ~IsLive(loc[t].sarg)
    /\ \/ pc' = [pc EXCEPT ![t] = "hung"]
       \/ pc' = [pc EXCEPT ![t] = "g_scan"]
    /\ UNCHANGED <<store, blocks, strs, main_mutex, loc, fails, succ, hist>>

\* lines 99-107 on a block that realloc has freed
get_use_freed(t) ==
    /\ pc[t] \in {"g_scan", "g_unlock"}
    /\ loc[t].sarg \in DOMAIN blocks
    /\ ~IsLive(loc[t].sarg)
    /\ \/ /\ pc' = [pc EXCEPT ![t] = "crashed"]
          /\ UNCHANGED loc
       \/ /\ pc[t] = "g_scan"
          /\ loc' = [loc EXCEPT
                 ![t].found = FoundValue(blocks[loc[t].sarg], loc[t].key)]
          /\ pc' = [pc EXCEPT ![t] = "g_unlock"]
       \/ /\ pc[t] = "g_unlock"
          /\ pc' = [pc EXCEPT ![t] = "g_ret"]
          /\ UNCHANGED loc
    /\ UNCHANGED <<store, blocks, strs, main_mutex, fails, succ, hist>>

\* the load of add_count from a block that realloc has freed: the thread is
\* killed, or gets whatever the freed bytes hold
add_count_read_freed(t) ==
    /\ pc[t] = "r_load"
    /\ loc[t].sarg \in DOMAIN blocks
    /\ ~IsLive(loc[t].sarg)
    /\ \/ /\ pc' = [pc EXCEPT ![t] = "crashed"]
          /\ UNCHANGED loc
       \/ /\ pc' = [pc EXCEPT ![t] = "r_ret"]
          /\ loc' = [loc EXCEPT ![t].count = blocks[loc[t].sarg].add_count]
    /\ UNCHANGED <<store, blocks, strs, main_mutex, fails, succ, hist>>

use_after_free(t) ==
    \/ upsert_lock_freed(t)
    \/ upsert_use_freed(t)
    \/ get_lock_freed(t)
    \/ get_use_freed(t)
    \/ add_count_read_freed(t)

\* the store has been created with store_create(ClientCapacity)
InitFree ==
    /\ store = 1
    /\ blocks = <<CreatedBlock(ClientCapacity)>>
    /\ strs = <<>>
    /\ main_mutex = NoMutex
    /\ pc = [t \in Clients |-> "c_idle"]
    /\ loc = [t \in Clients |-> Locals]
    /\ fails = 0
    /\ succ = 0
    /\ hist = NoHist

NextFree ==
    \/ \E t \in Clients : client(t)
    \/ \E t \in Clients : store_add_or_update_item(t)
    \/ \E t \in Clients : store_get_value(t)
    \/ \E t \in Clients : use_after_free(t)

SpecFree == InitFree /\ [][NextFree]_vars

\* ------------------------------------- clients upserting keys of their own
\* Each client thread upserts only keys that no other thread uses.
OwnKeys(t) == IF t = 0 THEN {"a", "c"} ELSE {"b"}

\* store_add_or_update_item(&store, k, value) with a key of the thread's own
client_upsert_own(t) ==
    /\ pc[t] = "c_idle"
    /\ loc[t].i < MaxCalls
    /\ \E k \in OwnKeys(t) :
        loc' = [loc EXCEPT ![t].store_ptr = StorePtr,
                           ![t].key = k,
                           ![t].value = ClientValue(t, loc[t].i),
                           ![t].site = "client"]
    /\ pc' = [pc EXCEPT ![t] = "u_check"]
    /\ UNCHANGED <<store, blocks, strs, main_mutex, fails, succ, hist>>

NextDistinct ==
    \/ \E t \in Clients : client_upsert_own(t)
    \/ \E t \in Clients : client_return(t)
    \/ \E t \in Clients : store_add_or_update_item(t)
    \/ \E t \in Clients : upsert_lock_freed(t)
    \/ \E t \in Clients : upsert_use_freed(t)

SpecDistinct == InitFree /\ [][NextDistinct]_vars

\* every client thread keeps being scheduled, and mtx_lock is fair: a thread
\* that finds the mutex free again and again gets it
FairFree ==
    \A t \in Clients :
        /\ WF_vars(client(t) \/ store_add_or_update_item(t)
                    \/ store_get_value(t) \/ use_after_free(t))
        /\ SF_vars(upsert_lock(t))
        /\ SF_vars(get_lock(t))

SpecFreeFair == SpecFree /\ FairFree

\* ------------------------------------------------------ a sequential caller
\* One thread uses the interface of kv_store.h: it creates a store, makes any
\* sequence of calls with any arguments, and destroys the store.

\* store = store_create(c), with c zero or not; the caller goes on either way
caller_create ==
    /\ pc[Caller] = "s_create"
    /\ \E c \in {0, SeqCapacity} :
          /\ store_create(c)
          /\ loc' = [loc EXCEPT ![Caller].initial_capacity = c]
    /\ pc' = [pc EXCEPT ![Caller] = "c_idle"]
    /\ UNCHANGED <<strs, main_mutex, succ, hist>>

\* store_add_or_update_item(sp, k, v): each argument valid or null
caller_upsert ==
    /\ pc[Caller] = "c_idle"
    /\ loc[Caller].i < SeqCalls
    /\ \E sp \in {StorePtr, NULL} :
       \E k \in SeqKeys \cup {NoString} :
       \E v \in {ClientValue(Caller, loc[Caller].i), NoString} :
          loc' = [loc EXCEPT ![Caller].store_ptr = sp,
                             ![Caller].key = k,
                             ![Caller].value = v,
                             ![Caller].site = "client"]
    /\ pc' = [pc EXCEPT ![Caller] = "u_check"]
    /\ UNCHANGED <<store, blocks, strs, main_mutex, fails, succ, hist>>

\* store_get_value(s, k): each argument valid or null
caller_get ==
    /\ pc[Caller] = "c_idle"
    /\ loc[Caller].i < SeqCalls
    /\ \E s \in {store, NULL} :
       \E k \in SeqKeys \cup {NoString} :
          loc' = [loc EXCEPT ![Caller].sarg = s,
                             ![Caller].key = k,
                             ![Caller].site = "client"]
    /\ pc' = [pc EXCEPT ![Caller] = "g_check"]
    /\ UNCHANGED <<store, blocks, strs, main_mutex, fails, succ, hist>>

\* store_destroy(store), lines 34-42, as the caller's last call
caller_destroy ==
    /\ pc[Caller] = "c_idle"
    /\ strs' = DestroyStrs(store)
    /\ blocks' = DestroyBlocks(store)
    /\ pc' = [pc EXCEPT ![Caller] = "s_done"]
    /\ UNCHANGED <<store, main_mutex, loc, fails, succ, hist>>

\* the call has returned; the caller keeps what a lookup returned in a
\* variable of its own, as main does with original_val
caller_return ==
    /\ pc[Caller] \in {"u_ret", "g_ret"}
    /\ loc[Caller].site = "client"
    /\ loc' = [loc EXCEPT ![Caller].i = @ + 1, ![Caller].site = "none",
                          ![Caller].pre = NoSnap, ![Caller].path = "none",
                          ![Caller].sarg = NULL, ![Caller].found = NULL,
                          ![Caller].original_val =
                              IF pc[Caller] = "g_ret" THEN loc[Caller].found
                              ELSE @]
    /\ pc' = [pc EXCEPT ![Caller] = "c_idle"]
    /\ UNCHANGED <<store, blocks, strs, main_mutex, fails, succ, hist>>

caller ==
    \/ caller_create
    \/ caller_upsert
    \/ caller_get
    \/ caller_return
    \/ caller_destroy

InitSeq ==
    /\ store = NULL
    /\ blocks = <<>>
    /\ strs = <<>>
    /\ main_mutex = NoMutex
    /\ pc = [t \in {Caller} |-> "s_create"]
    /\ loc = [t \in {Caller} |-> Locals]
    /\ fails = 0
    /\ succ = 0
    /\ hist = NoHist

NextSeq ==
    \/ caller
    \/ store_add_or_update_item(Caller)
    \/ store_get_value(Caller)

SpecSeq == InitSeq /\ [][NextSeq]_vars



\* =================================================================== claims

\* the store block *store_ptr designates
TheStore == blocks[store]

\* threads whose upsert call has just returned
Returned(t) == pc[t] = "u_ret"

CounterCountsSuccesses ==
    IsLive(store) =>
        /\ TheStore.add_count =
              succ + Cardinality({t \in Threads :
                          pc[t] \in {"u_upd_unlock", "u_ins_unlock"}})
        /\ \A t \in Threads :
              (Returned(t) /\ ~loc[t].res) =>
                  TheStore.add_count = loc[t].pre.add_count

\* a call has returned false after two or more updates were counted on top
\* of the inserts
CounterWitness ==
    \E t \in Threads :
        /\ Returned(t)
        /\ ~loc[t].res
        /\ IsLive(store)
        /\ TheStore.item_count >= 1
        /\ TheStore.add_count >= TheStore.item_count + 2

\* the entries the call of thread t found are all in block b, in place
Preserved(t, b) ==
    /\ b.item_count >= loc[t].pre.item_count
    /\ \A i \in 1 .. loc[t].pre.item_count :
          /\ PairAt(b, i) = loc[t].pre.entries[i]
          /\ Content(b)[i] = loc[t].pre.content[i]

\* positions of an insert after the growth check
AfterGrowth ==
    {"u_dup", "u_put_key", "u_put_value", "u_inc_items", "u_ins_count",
     "u_ins_unlock", "u_ret"}

\* C3 (No loss under growth): when a call grows the store, every entry that
\* was there before is in the block realloc returned, and in the store for
\* the rest of the call, with the key and value it had.
NoLossUnderGrowth ==
    \A t \in Threads :
        /\ pc[t] = "u_grow_assign" =>
              /\ IsLive(loc[t].new_store)
              /\ Preserved(t, blocks[loc[t].new_store])
        /\ (pc[t] \in AfterGrowth /\ IsLive(store)
              /\ TheStore.capacity > loc[t].pre.capacity) =>
              Preserved(t, TheStore)

\* an insert that grew and moved a store of two or more entries, itself the
\* result of a growth, has returned
NoLossWitness ==
    \E t \in Threads :
        /\ Returned(t)
        /\ loc[t].path = "insert"
        /\ IsLive(store)
        /\ store # loc[t].pre.store
        /\ loc[t].pre.item_count >= 2
        /\ TheStore.capacity = 2 * loc[t].pre.capacity

\* C4 (Update overwrite): when an upsert of a present key has returned
\* true, the store is at the same address with the same item_count and
\* capacity, every key is unchanged, the entry of that key holds the new
\* value and every other entry holds the value it held.
UpdateOverwrite ==
    \A t \in Threads :
        (Returned(t) /\ loc[t].path = "update") =>
            /\ IsLive(store)
            /\ store = loc[t].pre.store
            /\ TheStore.item_count = loc[t].pre.item_count
            /\ TheStore.capacity = loc[t].pre.capacity
            /\ \A i \in 1 .. loc[t].pre.item_count :
                  /\ PairAt(TheStore, i).key = loc[t].pre.entries[i].key
                  /\ Content(TheStore)[i].key = loc[t].pre.content[i].key
                  /\ IF loc[t].pre.content[i].key = loc[t].key
                     THEN Content(TheStore)[i].value = loc[t].value
                     ELSE /\ PairAt(TheStore, i).value
                                = loc[t].pre.entries[i].value
                          /\ Content(TheStore)[i].value
                                = loc[t].pre.content[i].value

\* an update has returned in a store that was full
UpdateOverwriteWitness ==
    \E t \in Threads :
        /\ Returned(t)
        /\ loc[t].path = "update"
        /\ IsLive(store)
        /\ TheStore.item_count = TheStore.capacity
        /\ TheStore.item_count >= 2

\* every worker has run to its end, main is past the joins and has not
\* destroyed the store
AllJoined ==
    /\ \A t \in Workers : pc[t] = "w_done"
    /\ pc[Main] \in {"m_read", "g_check", "g_lock", "g_scan", "g_unlock",
                      "g_ret", "m_destroy"}

\* the value key i of worker t ends with
FinalValue(t, i) == IF i = 0 THEN UpdatedValue ELSE ValueOf(t)

\* what the harness expects to find
StressOutcome ==
    /\ IsLive(store)
    /\ TheStore.item_count = NumWorkers * ItemsPerThread
    /\ TheStore.add_count = NumWorkers * ItemsPerThread + NumWorkers
    /\ \A t \in Workers : \A i \in 0 .. (ItemsPerThread - 1) :
          StrAt(FoundValue(TheStore, KeyOf(t, i))) = FinalValue(t, i)

\* every call of every worker returned true
AllCallsSucceeded == succ = NumWorkers * (ItemsPerThread + 1)

UpsertThreadSafe ==
    /\ \A t \in Threads :
          /\ pc[t] = "u_lock" => IsLive(loc[t].lk)
          /\ pc[t] \in UpsertInside => IsLive(store)
    /\ \A a \in DOMAIN blocks :
          blocks[a].live =>
              /\ blocks[a].item_count <= blocks[a].capacity
              /\ Cardinality({StrAt(PairAt(blocks[a], i).key) :
                                 i \in 1 .. blocks[a].item_count})
                    = blocks[a].item_count
    /\ IsLive(store) =>
          TheStore.add_count =
              succ + Cardinality({t \in Threads :
                          pc[t] \in {"u_upd_unlock", "u_ins_unlock"}})

\* C7 (No use-after-relocation): no thread in store_get_value locks, scans
\* or unlocks a store block that growth has freed.
LookupNeverStale ==
    \A t \in Threads :
        pc[t] \in {"g_lock", "g_scan", "g_unlock"} => IsLive(loc[t].sarg)

\* the call of thread t failed on an allocation
FailedAlloc(t) ==
    /\ Returned(t)
    /\ loc[t].path \in {"update_fail", "grow_fail", "copy_fail"}

\* item_count and the entries are what the call found
EntriesIntact(t) ==
    /\ IsLive(store)
    /\ TheStore.item_count = loc[t].pre.item_count
    /\ Entries(TheStore) = loc[t].pre.entries
    /\ Content(TheStore) = loc[t].pre.content

\* the failed insert of thread t had grown the store before a copy failed
GrewThenFailed(t) ==
    /\ loc[t].path = "copy_fail"
    /\ loc[t].pre.item_count >= loc[t].pre.capacity

\* C8 (Failure leaves state intact): after an upsert that returned false
\* because an allocation failed, item_count, capacity and all entries are
\* what they were before the call.
FailureLeavesStateIntact ==
    \A t \in Threads :
        FailedAlloc(t) =>
            /\ EntriesIntact(t)
            /\ TheStore.capacity = loc[t].pre.capacity

\* what a failed call does leave intact: item_count and all entries; capacity
\* and the store's address too, unless the call had grown the store, which
\* then keeps its doubled capacity
FailureLeavesEntriesIntact ==
    \A t \in Threads :
        FailedAlloc(t) =>
            /\ EntriesIntact(t)
            /\ IF GrewThenFailed(t)
               THEN TheStore.capacity = 2 * loc[t].pre.capacity
               ELSE /\ TheStore.capacity = loc[t].pre.capacity
                    /\ store = loc[t].pre.store

\* positions between mtx_lock and mtx_unlock of upsert and lookup
InsideLock == UpsertInside \cup {"u_grow_assign", "g_scan", "g_unlock"}

\* C9 (Mutual exclusion / no torn entry): at most one thread is inside the
\* locked section of upsert or lookup, and a scanning lookup sees no counted
\* slot whose key or value is unwritten.
MutualExclusion ==
    /\ Cardinality({t \in Threads : pc[t] \in InsideLock}) <= 1
    /\ \A t \in Threads :
          (pc[t] = "g_scan" /\ IsLive(loc[t].sarg)) =>
              \A i \in 1 .. blocks[loc[t].sarg].item_count :
                  /\ PairAt(blocks[loc[t].sarg], i).key # Uninit
                  /\ PairAt(blocks[loc[t].sarg], i).value # Uninit

\* every live store block has 0 <= item_count <= capacity and capacity >= 1
CapacityInvariant ==
    \A a \in DOMAIN blocks :
        blocks[a].live =>
            /\ 0 <= blocks[a].item_count
            /\ blocks[a].item_count <= blocks[a].capacity
            /\ blocks[a].capacity >= 1

\* no step takes a live store block to one of smaller capacity
CapacityNeverShrinks ==
    \A a \in DOMAIN blocks : \A b \in DOMAIN blocks' :
        (blocks[a].live /\ blocks'[b].live) =>
            blocks'[b].capacity >= blocks[a].capacity

\* C10: in every reachable state of a live store 0 <= item_count <= capacity
\* and capacity >= 1, and no step of any operation decreases capacity.
CapacityBounds == []CapacityInvariant /\ [][CapacityNeverShrinks]_vars

\* an insert has doubled the capacity of a full store and filled it again
CapacityWitness ==
    \E t \in Threads :
        /\ Returned(t)
        /\ loc[t].path = "insert"
        /\ IsLive(store)
        /\ loc[t].pre.item_count = loc[t].pre.capacity
        /\ TheStore.capacity = 2 * loc[t].pre.capacity
        /\ TheStore.item_count = TheStore.capacity

\* positions of a store_get_value call, from its entry to its return
LookupPositions == {"g_lock", "g_scan", "g_unlock", "g_ret"}

\* a lookup of a key in the store of *store_ptr has returned to thread t
LookedUp(t) ==
    /\ pc[t] = "g_ret"
    /\ loc[t].sarg # NULL
    /\ loc[t].sarg = store
    /\ loc[t].key # NoString

\* C11 (Lookup result): a returned store_get_value gives the value of the most
\* recent upsert of the key that returned true, and NULL exactly when no
\* upsert of the key has returned true; from entry to return of the lookup
\* item_count, capacity, entries and add_count are what they were at entry.
LookupResult ==
    \A t \in Threads :
        /\ LookedUp(t) =>
              IF loc[t].key \in DOMAIN hist.last
              THEN /\ loc[t].found # NULL
                   /\ StrAt(loc[t].found) = hist.last[loc[t].key].value
              ELSE loc[t].found = NULL
        /\ pc[t] \in LookupPositions => Snapshot = loc[t].pre

\* a lookup has returned the value of a key whose value was overwritten: two
\* upserts have returned true and only one key was ever upserted
LookupResultWitness ==
    \E t \in Threads :
        /\ LookedUp(t)
        /\ loc[t].found # NULL
        /\ succ >= 2
        /\ Cardinality(DOMAIN hist.last) = 1

\* no call is running: every thread is between calls
Quiescent == \A t \in Threads : pc[t] = "c_idle"

\* C12 (Per-key linearizability): when the concurrent calls have all returned,
\* each key that was upserted holds the value of the upsert, among those that
\* returned true, that acquired the content lock last.
LastWriterWins ==
    (Quiescent /\ IsLive(store)) =>
        \A k \in DOMAIN hist.last :
            /\ FoundValue(TheStore, k) # NULL
            /\ StrAt(FoundValue(TheStore, k)) = hist.last[k].value

\* C13 (Returned value reference): a value pointer that store_get_value has
\* returned and the caller still holds designates an allocated string: no
\* later update of the key and no destroy has freed it.
HeldValueNotFreed ==
    \A t \in Threads :
        loc[t].original_val # NULL =>
            /\ loc[t].original_val \in DOMAIN strs
            /\ strs[loc[t].original_val].live

\* store_create has just returned a store to thread t
Created(t) ==
    /\ pc[t] = "c_idle"
    /\ loc[t].i = 0
    /\ store # NULL

\* C14 (store_create): the store that store_create(c) returns is allocated,
\* has item_count 0, add_count 0, an unlocked mutex, and capacity c when
\* c > 0, 8 when c = 0, with room for that many pairs.
CreateResult ==
    \A t \in Threads :
        Created(t) =>
            /\ IsLive(store)
            /\ TheStore.item_count = 0
            /\ TheStore.add_count = 0
            /\ TheStore.mutex = Nobody
            /\ TheStore.capacity =
                  (IF loc[t].initial_capacity > 0
                   THEN loc[t].initial_capacity ELSE 8)
            /\ Len(TheStore.pairs) = TheStore.capacity

\* store_create(0) has returned a store
CreateResultWitness ==
    \E t \in Threads :
        /\ Created(t)
        /\ loc[t].initial_capacity = 0
        /\ IsLive(store)

\* no worker is running: each has returned or was never created
NoWorkerRunning == \A w \in Workers : pc[w] \in {"w_done", "w_none"}

\* main is past store_destroy, or has exited without a store
MainOver == pc[Main] \in {"m_done", "m_exit"}

\* the step of line 102: store_destroy(final_store), after the joins
DestroyStep ==
    (pc[Main] = "m_destroy" /\ pc'[Main] = "m_done") =>
        /\ NoWorkerRunning
        /\ loc[Main].final_store = store
        /\ IsLive(store)
        /\ ~IsLive(store)'

\* once main is over nothing of the store is left allocated and no call on
\* it is made
NothingAfterDestroy ==
    MainOver =>
        /\ NoWorkerRunning
        /\ \A a \in DOMAIN blocks : ~blocks[a].live
        /\ \A p \in DOMAIN strs : ~strs[p].live

\* C15 (Destroy): in the harness store_destroy is applied once, to the block
\* that *store_ptr designates then (still allocated, wherever growth moved
\* it), when every worker has returned; after it no block or string of the
\* store is allocated and no thread makes a call.
DestroyOnceAfterJoin == [][DestroyStep]_vars /\ []NothingAfterDestroy

\* main has destroyed a store that growth had moved from its first address,
\* after both workers finished
DestroyWitness ==
    /\ pc[Main] = "m_done"
    /\ \A w \in Workers : pc[w] = "w_done"
    /\ loc[Main].final_store = store
    /\ store > 1
    /\ ~IsLive(store)

\* the key-to-value mapping held by block b
Mapping(b) ==
    {<<Content(b)[i].key, Content(b)[i].value>> : i \in 1 .. b.item_count}

\* the mapping made by the upserts that returned true, and by them alone
SuccessMapping == {<<k, hist.last[k].value>> : k \in DOMAIN hist.last}

\* thread t is between two calls, or a call has just returned to it
BetweenCalls(t) == pc[t] \in {"c_idle", "u_ret", "g_ret"}

\* C16 (Usable after failure): when an upsert has returned false the store is
\* allocated and unlocked with the entries and item_count it had at entry;
\* and between calls the store's mapping and item_count are those made by
\* the upserts that returned true alone, as if no failed call had been made.
UsableAfterFailure ==
    \A t \in Threads :
        /\ (Returned(t) /\ ~loc[t].res /\ loc[t].pre.store # NULL) =>
              /\ IsLive(store)
              /\ TheStore.mutex = Nobody
              /\ TheStore.item_count = loc[t].pre.item_count
              /\ Content(TheStore) = loc[t].pre.content
        /\ (BetweenCalls(t) /\ IsLive(store)) =>
              /\ TheStore.mutex = Nobody
              /\ Mapping(TheStore) = SuccessMapping
              /\ TheStore.item_count = Cardinality(DOMAIN hist.last)

\* an insert has returned true after an earlier upsert on this store returned
\* false for a failed allocation
UsableAfterFailureWitness ==
    \E t \in Threads :
        /\ Returned(t)
        /\ loc[t].res
        /\ loc[t].path = "insert"
        /\ loc[t].pre.item_count >= 1
        /\ fails > 0

\* the arguments of thread t's upsert call fail the test of line 45
InvalidUpsertArgs(t) ==
    \/ loc[t].store_ptr = NULL
    \/ store = NULL
    \/ loc[t].key = NoString
    \/ loc[t].value = NoString

\* the arguments of thread t's lookup call fail the test of line 96
InvalidLookupArgs(t) == loc[t].sarg = NULL \/ loc[t].key = NoString

\* positions of upsert from mtx_lock to mtx_unlock
UpsertLocking == UpsertInside \cup {"u_lock", "u_grow_assign"}

\* C17 (Invalid arguments): an upsert with a null store_ptr, *store_ptr, key
\* or value returns false, a lookup with a null store or key returns NULL;
\* neither reaches mtx_lock, and when it returns the store's entries,
\* item_count, capacity and add_count are those at entry and its mutex is
\* unlocked.
InvalidArguments ==
    \A t \in Threads :
        /\ pc[t] \in UpsertLocking => ~InvalidUpsertArgs(t)
        /\ (Returned(t) /\ InvalidUpsertArgs(t)) =>
              /\ ~loc[t].res
              /\ Snapshot = loc[t].pre
              /\ IsLive(store) => TheStore.mutex = Nobody
        /\ pc[t] \in {"g_lock", "g_scan", "g_unlock"} => ~InvalidLookupArgs(t)
        /\ (pc[t] = "g_ret" /\ InvalidLookupArgs(t)) =>
              /\ loc[t].found = NULL
              /\ Snapshot = loc[t].pre
              /\ IsLive(store) => TheStore.mutex = Nobody

\* an upsert with a null value, its other arguments valid, has returned on a
\* store that holds an entry
InvalidArgumentsWitness ==
    \E t \in Threads :
        /\ Returned(t)
        /\ loc[t].value = NoString
        /\ loc[t].key # NoString
        /\ loc[t].store_ptr # NULL
        /\ IsLive(store)
        /\ TheStore.item_count >= 1

\* C18 (Counter readable without the lock): whenever a thread loads
\* add_count through the address it read from *store_ptr, that address
\* designates the store's allocated block, whatever another thread's upsert
\* (growth included) is doing.
CounterReadable ==
    \A t \in Threads : pc[t] = "r_load" => IsLive(loc[t].sarg)

\* thread t is in an upsert call, or at its return, on a store that existed
\* when the call was made
InUpsert(t) ==
    /\ pc[t] \in UpsertLocking \cup {"u_ret"}
    /\ loc[t].pre.store # NULL

\* the key of thread t's call was in the store when the call was made
KeyWasPresent(t) ==
    \E i \in DOMAIN loc[t].pre.content : loc[t].pre.content[i].key = loc[t].key

RECURSIVE IsDoublingOf(_, _)
\* c is init times a power of two
IsDoublingOf(c, init) ==
    \/ c = init
    \/ /\ c > init
       /\ c % 2 = 0
       /\ IsDoublingOf(c \div 2, init)

\* C19 (Growth rule): during and after an upsert the capacity is the one the
\* call found or exactly twice it, and it is twice it only if the key was
\* absent and item_count equalled capacity at entry; a returned insert has
\* added exactly 1 to item_count and a returned update nothing; and the
\* capacity is the capacity store_create gave times a power of two.  (Between
\* realloc and the assignment of line 73 *store_ptr is not yet the new block;
\* that one position is left out.)
GrowthRule ==
    \A t \in Threads :
        /\ (InUpsert(t) /\ pc[t] # "u_grow_assign") =>
              /\ IsLive(store)
              /\ TheStore.capacity \in
                    {loc[t].pre.capacity, 2 * loc[t].pre.capacity}
              /\ TheStore.capacity # loc[t].pre.capacity =>
                    /\ ~KeyWasPresent(t)
                    /\ loc[t].pre.item_count = loc[t].pre.capacity
              /\ (Returned(t) /\ loc[t].path = "insert") =>
                    TheStore.item_count = loc[t].pre.item_count + 1
              /\ (Returned(t) /\ loc[t].path # "insert") =>
                    TheStore.item_count = loc[t].pre.item_count
        /\ IsLive(store) =>
              IsDoublingOf(TheStore.capacity,
                           CreateCapacity(loc[t].initial_capacity))

\* an insert has returned after doubling a capacity that an earlier insert
\* had already doubled
GrowthRuleWitness ==
    \E t \in Threads :
        /\ Returned(t)
        /\ loc[t].path = "insert"
        /\ loc[t].pre.capacity > CreateCapacity(loc[t].initial_capacity)
        /\ TheStore.capacity = 2 * loc[t].pre.capacity

\* thread t's upsert has returned because realloc failed
GrowthFailed(t) ==
    /\ Returned(t)
    /\ loc[t].path = "grow_fail"

\* C20 (Growth failure): when realloc fails the upsert returns false with
\* *store_ptr the address it was at entry, that block still allocated and
\* its mutex unlocked, and capacity, item_count, entries and add_count as at
\* entry.
GrowthFailureSafe ==
    \A t \in Threads :
        GrowthFailed(t) =>
            /\ ~loc[t].res
            /\ store # NULL
            /\ store = loc[t].pre.store
            /\ IsLive(store)
            /\ TheStore.mutex = Nobody
            /\ TheStore.capacity = loc[t].pre.capacity
            /\ TheStore.item_count = loc[t].pre.item_count
            /\ TheStore.add_count = loc[t].pre.add_count
            /\ Entries(TheStore) = loc[t].pre.entries
            /\ Content(TheStore) = loc[t].pre.content

\* realloc has failed in an upsert on a full store that holds entries
GrowthFailureWitness ==
    \E t \in Threads :
        /\ GrowthFailed(t)
        /\ loc[t].pre.item_count >= 1
        /\ loc[t].pre.item_count = loc[t].pre.capacity

\* the store blocks that are allocated
LiveBlocks == {a \in DOMAIN blocks : blocks[a].live}

\* C21 (Handle validity): whenever store_add_or_update_item has returned on
\* an existing store, by any path, *store_ptr designates an allocated block
\* and that block is the only allocated one: a block that growth replaced is
\* freed and is not what *store_ptr designates.
HandleValid ==
    \A t \in Threads :
        (Returned(t) /\ store # NULL) =>
            /\ IsLive(store)
            /\ LiveBlocks = {store}
            /\ (loc[t].pre.store # NULL /\ loc[t].pre.store # store) =>
                  ~IsLive(loc[t].pre.store)

\* an upsert whose growth moved the store has returned
HandleValidWitness ==
    \E t \in Threads :
        /\ Returned(t)
        /\ loc[t].pre.store # NULL
        /\ store # loc[t].pre.store
        /\ IsLive(store)

\* thread t is in mtx_lock of upsert or lookup: it waits for the content
\* lock, or will wait for ever ("hung")
WaitingForLock(t) == pc[t] \in {"u_lock", "g_lock", "hung"}

\* C22 (Lock release and termination): with threads scheduled fairly and a
\* fair lock, every call of upsert or lookup that waits for the content lock
\* gets it, the holder having released it; so the call can go on to return.
EveryLockWaitEnds ==
    \A t \in Clients : WaitingForLock(t) ~> ~WaitingForLock(t)

\* positions of a store_add_or_update_item call, from entry to return
UpsertPositions == UpsertLocking \cup {"u_check", "u_ret"}

\* C23 (Harness pointer-protection): a worker is in store_add_or_update_item
\* only while it holds main_mutex, so at most one worker is in the call; a
\* worker in mtx_lock waits on an allocated block, and a worker between
\* mtx_lock and mtx_unlock reads *store_ptr only while it designates an
\* allocated block.
PointerProtection ==
    /\ \A w \in Workers :
          /\ pc[w] \in UpsertPositions => main_mutex = w
          /\ pc[w] = "u_lock" => IsLive(loc[w].lk)
          /\ pc[w] \in UpsertInside => IsLive(store)
    /\ Cardinality({w \in Workers : pc[w] \in UpsertPositions}) <= 1

\* a worker's growth has moved the store and freed the old block while
\* another worker is at its mtx_lock of main_mutex
PointerProtectionWitness ==
    \E w, v \in Workers :
        /\ w # v
        /\ pc[w] = "u_grow_assign"
        /\ ~IsLive(store)
        /\ pc[v] = "w_loop"

\* every worker that was started finishes
WorkersFinish == \A w \in Workers : (pc[w] = "w_loop") ~> (pc[w] = "w_done")

\* C24 (Harness deadlock freedom): under fair scheduling every worker that
\* runs finishes, and main, once at its joins, gets past them all.
HarnessTerminates ==
    /\ WorkersFinish
    /\ (pc[Main] = "m_join") ~> (pc[Main] = "m_read")

\* the strings that are allocated
LiveStrings == {p \in DOMAIN strs : strs[p].live}

\* the key and value pointers of pairs[0..item_count) of block b
OwnedStrings(b) ==
    {PairAt(b, i).key : i \in 1 .. b.item_count}
        \cup {PairAt(b, i).value : i \in 1 .. b.item_count}

\* C25 (Allocation accounting): whenever no call is in progress the
\* allocated strings are exactly the keys and values of pairs[0..item_count),
\* all different pointers; with no store there is none; and after
\* store_destroy no string and no block is allocated.
AllocationAccounting ==
    \A t \in Threads :
        /\ (BetweenCalls(t) /\ IsLive(store)) =>
              /\ LiveStrings = OwnedStrings(TheStore)
              /\ Cardinality(OwnedStrings(TheStore)) = 2 * TheStore.item_count
        /\ (BetweenCalls(t) /\ store = NULL) => LiveStrings = {}
        /\ pc[t] = "s_done" =>
              /\ LiveStrings = {}
              /\ LiveBlocks = {}

\* the store holds entries, no call is in progress, and at least two strings
\* have been freed (a replaced value, the copies of a failed insert)
AllocationAccountingWitness ==
    \E t \in Threads :
        /\ pc[t] = "c_idle"
        /\ IsLive(store)
        /\ TheStore.item_count >= 1
        /\ Cardinality(DOMAIN strs \ LiveStrings) >= 2

\* C26 (Commutativity on distinct keys): when concurrent threads have
\* upserted pairwise distinct keys and all their calls have returned, the
\* mapping, item_count and add_count are those of the calls that returned
\* true, whatever the interleaving was.
DistinctKeysCommute ==
    (Quiescent /\ IsLive(store)) =>
        /\ Mapping(TheStore) = SuccessMapping
        /\ TheStore.item_count = Cardinality(DOMAIN hist.last)
        /\ TheStore.add_count = succ

\* thread t is in a call of upsert or lookup, or at its return, on a store
\* that existed when the call was made
InCallOnStore(t) ==
    /\ pc[t] \in UpsertPositions \cup LookupPositions
    /\ loc[t].pre.store # NULL
    /\ store \in DOMAIN blocks

\* C27 (Insertion order is stable): during and after every call each key
\* that was in the store at entry is at the index it had at entry, and a
\* returned insert has put its key at index item_count of entry, the new
\* last entry.
InsertionOrderStable ==
    \A t \in Threads :
        InCallOnStore(t) =>
            /\ \A i \in 1 .. loc[t].pre.item_count :
                  StrAt(PairAt(TheStore, i).key) = loc[t].pre.content[i].key
            /\ (Returned(t) /\ loc[t].path = "insert") =>
                  /\ TheStore.item_count = loc[t].pre.item_count + 1
                  /\ StrAt(PairAt(TheStore, TheStore.item_count).key)
                        = loc[t].key

\* an insert has returned on a store of two or more entries that its growth
\* moved
InsertionOrderWitness ==
    \E t \in Threads :
        /\ Returned(t)
        /\ loc[t].path = "insert"
        /\ loc[t].pre.item_count >= 2
        /\ store # loc[t].pre.store

\* C28 (add_count >= item_count): whenever the store's mutex is not held
\* add_count is at least item_count; add_count is below item_count only
\* while a thread is between the increment of item_count (line 88) and the
\* fetch_add (line 90), and then by one.
CounterCoversItems ==
    IsLive(store) =>
        /\ TheStore.mutex = Nobody =>
              TheStore.add_count >= TheStore.item_count
        /\ TheStore.add_count < TheStore.item_count =>
              /\ \E t \in Threads : pc[t] = "u_ins_count"
              /\ TheStore.add_count + 1 = TheStore.item_count

\* the mutex is free on a store of two or more entries that has also seen
\* an update
CounterCoversItemsWitness ==
    /\ IsLive(store)
    /\ TheStore.mutex = Nobody
    /\ TheStore.item_count >= 2
    /\ TheStore.add_count > TheStore.item_count

\* ------------------------------------------------------------------- C29
\* the positions of an insert between the growth check and item_count++:
\* lines 77-88, where pairs[item_count] is written
InsertWriting(t) == pc[t] \in {"u_dup", "u_put_key", "u_put_value", "u_inc_items"}

\* a slot whose key and value pointers have been stored
SlotWritten(b, i) ==
    /\ i \in DOMAIN b.pairs
    /\ b.pairs[i].key \in DOMAIN strs
    /\ b.pairs[i].value \in DOMAIN strs

\* C29: no slot access is out of bounds.  The indices the scans of upsert,
\* lookup and destroy read, 0 .. item_count - 1, are all slots of the block
\* that an insert has written (item_count <= capacity <= the block's size);
\* and while an insert is past the growth check, item_count < capacity, so
\* the slot pairs[item_count] it writes lies inside the block.
SlotsInBounds ==
    IsLive(store) =>
        /\ TheStore.item_count >= 0
        /\ TheStore.item_count <= TheStore.capacity
        /\ TheStore.capacity <= Len(TheStore.pairs)
        /\ \A i \in 1 .. TheStore.item_count : SlotWritten(TheStore, i)
        /\ \A t \in Threads :
              InsertWriting(t) =>
                  /\ TheStore.item_count < TheStore.capacity
                  /\ NextSlot(TheStore) \in DOMAIN TheStore.pairs

\* an insert that follows a growth of a full store writes the first of the new
\* slots
SlotsInBoundsWitness ==
    /\ IsLive(store)
    /\ \E t \in Threads :
          /\ pc[t] = "u_put_value"
          /\ loc[t].new_capacity = TheStore.capacity
          /\ TheStore.item_count >= 1
          /\ TheStore.item_count * 2 = TheStore.capacity

\* ------------------------------------------------------------------- C30
\* the key worker t formats into key_buffer in iteration n
WorkerKey == [t \in Workers |-> [n \in 0 .. (ItemsPerThread - 1) |-> KeyOf(t, n)]]

\* worker t has formatted a later key into key_buffer since its call for
\* iteration n returned true
BufferReused(t, n) ==
    /\ n < loc[t].i
    /\ WorkerKey[t][n] \in DOMAIN hist.last
    /\ pc[t] # "w_loop" => loc[t].key # WorkerKey[t][n]

\* the pointers the live entries of block b hold
StoredPointers(b) ==
    {PairAt(b, i).key : i \in 1 .. b.item_count}
        \cup {PairAt(b, i).value : i \in 1 .. b.item_count}

\* the entry of block b with this key holds this value
HoldsCopy(b, key, value) ==
    \E i \in 1 .. b.item_count :
        /\ StrAt(PairAt(b, i).key) = key
        /\ StrAt(PairAt(b, i).value) = value

\* between calls, every entry points to two live heap strings of its own,
\* and the entry of a key whose upsert has returned true holds that key and
\* the value last passed for it, whatever the worker's buffers hold now
EntriesOwned ==
    (IsLive(store) /\ TheStore.mutex = Nobody) =>
        /\ Cardinality(StoredPointers(TheStore)) = 2 * TheStore.item_count
        /\ \A p \in StoredPointers(TheStore) : p \in DOMAIN strs /\ strs[p].live
        /\ \A t \in Workers : \A n \in 0 .. (ItemsPerThread - 1) :
              BufferReused(t, n) =>
                  HoldsCopy(TheStore, WorkerKey[t][n],
                            hist.last[WorkerKey[t][n]].value)

\* lines 22-23 and 35-37 of main.c: worker t writes the key and value of its
\* next call over the ones of its last call
BufferOverwrite(t) == pc[t] = "w_loop" /\ pc'[t] = "u_check"

CreateFailed(t) ==
    /\ pc[t] = "c_idle"
    /\ loc[t].i = 0
    /\ store = NULL

\* C31 (store_create is all-or-nothing): right after store_create returns,
\* either it returned a store, which is then the only allocated block, with
\* its mutex initialised and free, add_count 0, item_count 0 and its capacity
\* set to the number of pairs allocated; or it returned NULL, and then no
\* block and no string is allocated: malloc allocated none, or the block was
\* freed when mtx_init failed.
CreateAllOrNothing ==
    \A t \in Threads :
        /\ Created(t) =>
              /\ LiveBlocks = {store}
              /\ LiveStrings = {}
              /\ TheStore.mutex = Nobody
              /\ TheStore.add_count = 0
              /\ TheStore.item_count = 0
              /\ TheStore.capacity >= 1
              /\ TheStore.capacity = Len(TheStore.pairs)
        /\ CreateFailed(t) =>
              /\ LiveBlocks = {}
              /\ LiveStrings = {}
              /\ fails >= 1

\* store_create has returned NULL after mtx_init failed: the block it had
\* allocated is freed
CreateAllOrNothingWitness ==
    \E t \in Threads :
        /\ CreateFailed(t)
        /\ Len(blocks) = 1
        /\ ~blocks[1].live

====
